---------------------------- MODULE Spec2Model ----------------------------
(***************************************************************************)
(* A model of fantraxapi/objs.py: the entity constructors that map decoded *)
(* JSON payloads to domain objects, the two incremental updaters           *)
(* (Transaction.update, ScoringPeriod.add_matchups) and the derived fields *)
(* of Matchup.                                                             *)
(*                                                                         *)
(* Conventions.                                                            *)
(*  - A JSON object (a Python dict) is a record; a key is present iff it   *)
(*    is in the record's DOMAIN.  A JSON array is a sequence; Python's     *)
(*    0-based data[k] is the sequence's element k + 1.                     *)
(*  - A Python str that the code parses is a sequence of one-character     *)
(*    strings, so that parsing is computed and not assumed.                *)
(*  - A constructor or method that can raise yields a record whose field   *)
(*    raised is "none" or the name of the exception that escapes it.       *)
(*  - Floats are fixed-point numbers counted in tenths.                    *)
(***************************************************************************)
EXTENDS Integers, Sequences, FiniteSets, TLC

VARIABLES
    tx,            \* the Transaction object
    tx_calls,      \* history: the update calls so far, "match" / "mismatch"
    tx_before,     \* history: tx before the current run of mismatched updates
    period,        \* the ScoringPeriod object
    period_rows,   \* history: the rows consumed by the constructor / add_matchups, in order
    period_calls,  \* history: per add_matchups call, the rows given / appended and the raise
    period_now,    \* history: datetime.now() when the period was constructed
    section,       \* Standings: the section payload
    standings,     \* Standings: the constructed object (or the raise)
    player_data,   \* Player: the payload
    player,        \* Player: the constructed object (or the raise)
    matchup_data,  \* Matchup: the cells of the row
    matchup,       \* Matchup: the constructed object (or the raise)
    won,           \* the last result of matchup.winner()
    diff,          \* the last result of matchup.difference()
    roster_data,   \* Roster: the payload
    roster         \* Roster: the constructed object (or the raise)

vars == <<tx, tx_calls, tx_before, period, period_rows, period_calls, period_now, section,
          standings, player_data, player, matchup_data, matchup, won, diff, roster_data, roster>>

txVars      == <<tx, tx_calls, tx_before>>
periodVars  == <<period, period_rows, period_calls, period_now>>
standVars   == <<section, standings>>
playerVars  == <<player_data, player>>
matchupVars == <<matchup_data, matchup, won, diff>>
rosterVars  == <<roster_data, roster>>

(***************************************************************************)
(* Bounds of the model.                                                    *)
(***************************************************************************)
MaxCount    == 3   \* numInGroup ranges over 1..MaxCount
MaxPlayers  == 3   \* update is explored while len(players) < MaxPlayers
MaxCalls    == 4   \* length of the update-call history
MaxDay      == 2   \* period dates range over Jan 01 .. Jan MaxDay
TicksPerDay == 2   \* resolution of datetime.now(): ticks per day
MaxMatchups == 2   \* rows of a period, over the constructor and add_matchups
MaxAdds     == 2   \* add_matchups calls on one period
MaxRows     == 3   \* rows of a standings section
MaxPos      == 2   \* length of posIdsNoFlex / posIds
MaxIcons    == 2   \* length of icons
MaxTotals   == 3   \* length of miscData.statusTotals
MaxGroupRows == 2  \* rows of the roster table

NotBuilt == [raised |-> "unbuilt"]   \* no object has been constructed yet
None     == [py |-> "None"]          \* Python's None
Unset    == [py |-> "unset"]         \* no result has been computed yet
Result(v) == [py |-> "value", val |-> v]   \* a value that is not None

Raise(e) == [raised |-> e]
Ok(o)    == o.raised = "none"

Min(a, b) == IF a < b THEN a ELSE b

(***************************************************************************)
(* Strings the code parses, as sequences of characters.                    *)
(***************************************************************************)
DigitChars == <<"0", "1", "2", "3", "4", "5", "6", "7", "8", "9">>

IsDigit(c) == \E i \in 1..10 : DigitChars[i] = c

DigitVal(c) == (CHOOSE i \in 1..10 : DigitChars[i] = c) - 1

AllDigits(s) == \A i \in 1..Len(s) : IsDigit(s[i])

RECURSIVE DigitsValue(_)
DigitsValue(s) ==
    IF s = <<>> THEN 0
    ELSE 10 * DigitsValue(SubSeq(s, 1, Len(s) - 1)) + DigitVal(s[Len(s)])

\* int(s) for a str s: a non-empty run of decimal digits, or ValueError.
ParseInt(s) ==
    IF s # <<>> /\ AllDigits(s)
    THEN [raised |-> "none", val |-> DigitsValue(s)]
    ELSE Raise("ValueError")

\* s.replace(',', '')
RemoveCommas(s) == SelectSeq(s, LAMBDA c : c # ",")

IndexOfDot(s) == IF \E i \in 1..Len(s) : s[i] = "."
                 THEN CHOOSE i \in 1..Len(s) : s[i] = "." /\ \A j \in 1..(i - 1) : s[j] # "."
                 ELSE 0

\* float(s) in tenths, for the finite decimal literals: digits with at most
\* one '.', an optional leading '-'; a str that is no number is a ValueError.
\* (Python also reads exponents, "inf" and "nan"; the payloads of the model
\* carry none of them, and at most one fractional digit, so tenths are exact.)
ParseUnsigned(s) ==
    LET d    == IndexOfDot(s)
        ip   == IF d = 0 THEN s ELSE SubSeq(s, 1, d - 1)
        fp   == IF d = 0 THEN <<>> ELSE SubSeq(s, d + 1, Len(s))
    IN  IF AllDigits(ip) /\ AllDigits(fp) /\ Len(ip) + Len(fp) > 0 /\ Len(fp) <= 1
        THEN [raised |-> "none",
              val |-> 10 * DigitsValue(ip) + DigitsValue(fp)]
        ELSE Raise("ValueError")

ParseFloat(s) ==
    IF s # <<>> /\ s[1] = "-"
    THEN LET r == ParseUnsigned(Tail(s))
         IN  IF Ok(r) THEN [raised |-> "none", val |-> 0 - r.val] ELSE r
    ELSE ParseUnsigned(s)

\* "%02d" % d
TwoDigits(d) == <<DigitChars[(d \div 10) + 1], DigitChars[(d % 10) + 1]>>

(***************************************************************************)
(* The registry of the API client: api.team(id) and api.positions[id].     *)
(***************************************************************************)
TeamRegistry ==
    [i \in {"t1", "t2"} |->
        [team_id |-> i,
         name    |-> IF i = "t1" THEN "Aces" ELSE "Bears",
         short   |-> IF i = "t1" THEN "ACE" ELSE "BRS",
         logo    |-> "logo"]]

\* api.team(team_id): the Team, or FantraxException when the id is unknown.
team(team_id) ==
    IF team_id \in DOMAIN TeamRegistry
    THEN [raised |-> "none", val |-> TeamRegistry[team_id]]
    ELSE Raise("FantraxException")

Position(data) == [id |-> data.id, name |-> data.name, short_name |-> data.shortName]

PositionRegistry ==
    [i \in {"p1", "p2"} |->
        Position([id |-> i,
                  name |-> IF i = "p1" THEN "Pitcher" ELSE "Utility",
                  shortName |-> IF i = "p1" THEN "P" ELSE "UT"])]

\* Position.__eq__: structural equality on (id, name, short_name).
PositionEq(a, b) == <<a.id, a.name, a.short_name>> = <<b.id, b.name, b.short_name>>

\* [api.positions[d] for d in ids]: KeyError on an id the registry lacks.
positions_of(ids) ==
    IF \A i \in 1..Len(ids) : ids[i] \in DOMAIN PositionRegistry
    THEN [raised |-> "none", val |-> [i \in 1..Len(ids) |-> PositionRegistry[ids[i]]]]
    ELSE Raise("KeyError")

(***************************************************************************)
(* Player                                                                  *)
(***************************************************************************)
PlayerRequiredKeys ==
    {"scorerId", "name", "shortName", "teamName", "posShortNames", "posIdsNoFlex", "posIds"}

\* The injured type ids without "6" (a variant).
InjuredTypeIds_without_6 == {"1", "2"}

InjuredTypeIds == {"1", "2", "6"}   \* DtD, Out, IR

\* The loop over data["icons"]: flags is [injured, suspended] so far.
RECURSIVE icon_flags(_, _)
icon_flags(icons, flags) ==
    IF icons = <<>> THEN flags
    ELSE LET icon == Head(icons)
         IN  icon_flags(Tail(icons),
                 IF icon.typeId \in InjuredTypeIds
                 THEN [flags EXCEPT !.injured = TRUE]
                 ELSE IF icon.typeId = "6"
                      THEN [flags EXCEPT !.suspended = TRUE]
                      ELSE flags)

\* Player with the two position lists read from each other's key (a variant).
Player_lists_swapped(data, transaction_type) ==
    IF ~(PlayerRequiredKeys \subseteq DOMAIN data) THEN Raise("KeyError")
    ELSE LET pos   == positions_of(data.posIds)
             all   == positions_of(data.posIdsNoFlex)
             flags == IF "icons" \in DOMAIN data
                      THEN icon_flags(data.icons, [injured |-> FALSE, suspended |-> FALSE])
                      ELSE [injured |-> FALSE, suspended |-> FALSE]
         IN  IF ~Ok(pos) THEN pos
             ELSE IF ~Ok(all) THEN all
             ELSE [raised          |-> "none",
                   type            |-> transaction_type,
                   id              |-> data.scorerId,
                   name            |-> data.name,
                   short_name      |-> data.shortName,
                   team_name       |-> data.teamName,
                   team_short_name |-> IF "teamShortName" \in DOMAIN data
                                       THEN data.teamShortName ELSE data.teamName,
                   pos_short_name  |-> data.posShortNames,
                   positions       |-> pos.val,
                   all_positions   |-> all.val,
                   injured         |-> flags.injured,
                   suspended       |-> flags.suspended]

\* Player.__init__(api, data, transaction_type)
Player(data, transaction_type) ==
    IF ~(PlayerRequiredKeys \subseteq DOMAIN data) THEN Raise("KeyError")
    ELSE LET pos   == positions_of(data.posIdsNoFlex)
             all   == positions_of(data.posIds)
             flags == IF "icons" \in DOMAIN data
                      THEN icon_flags(data.icons, [injured |-> FALSE, suspended |-> FALSE])
                      ELSE [injured |-> FALSE, suspended |-> FALSE]
         IN  IF ~Ok(pos) THEN pos
             ELSE IF ~Ok(all) THEN all
             ELSE [raised          |-> "none",
                   type            |-> transaction_type,
                   id              |-> data.scorerId,
                   name            |-> data.name,
                   short_name      |-> data.shortName,
                   team_name       |-> data.teamName,
                   team_short_name |-> IF "teamShortName" \in DOMAIN data
                                       THEN data.teamShortName ELSE data.teamName,
                   pos_short_name  |-> data.posShortNames,
                   positions       |-> pos.val,
                   all_positions   |-> all.val,
                   injured         |-> flags.injured,
                   suspended       |-> flags.suspended]

(***************************************************************************)
(* Transaction                                                             *)
(***************************************************************************)
MonthNumber == [b \in {"Jan", "Feb"} |-> IF b = "Jan" THEN 1 ELSE 2]

\* datetime.strptime(s, "%a %b %d, %Y, %I:%M%p"); s is given by its fields.
\* %I is a 12-hour clock: 12 AM is hour 0 and 12 PM is hour 12.
strptime_datetime(s) ==
    LET d == ParseInt(s.d)
        y == ParseInt(s.Y)
        h == ParseInt(s.I)
        m == ParseInt(s.M)
    IN  IF ~(Ok(d) /\ Ok(y) /\ Ok(h) /\ Ok(m)) \/ s.b \notin DOMAIN MonthNumber
           \/ s.p \notin {"AM", "PM"}
        THEN Raise("ValueError")
        ELSE IF ~(d.val \in 1..31 /\ h.val \in 1..12 /\ m.val \in 0..59)
        THEN Raise("ValueError")
        ELSE [raised |-> "none",
              val |-> [year |-> y.val, month |-> MonthNumber[s.b], day |-> d.val,
                       hour |-> (h.val % 12) + (IF s.p = "PM" THEN 12 ELSE 0),
                       minute |-> m.val]]

\* data["claimType"] if data["transactionCode"] == "CLAIM" else data["transactionCode"]
transaction_type_of(data) ==
    IF data.transactionCode = "CLAIM" THEN data.claimType ELSE data.transactionCode

\* Transaction.__init__(api, data)
Transaction(data) ==
    LET t == team(data.cells[1].teamId)
        d == strptime_datetime(data.cells[2].content)
        p == Player(data.scorer, transaction_type_of(data))
    IN  IF ~Ok(t) THEN t
        ELSE IF ~Ok(d) THEN d
        ELSE IF ~Ok(p) THEN p
        ELSE [raised    |-> "none",
              id        |-> data.txSetId,
              team      |-> t.val,
              date      |-> d.val,
              count     |-> data.numInGroup,
              players   |-> <<p>>,
              finalized |-> (data.numInGroup = 1)]

\* The result of a method call: the object afterwards and what it raised.
Returned(self)  == [self |-> self, raised |-> "none"]
Raised(self, e) == [self |-> self, raised |-> e]

\* update with the finalized flag recomputed from the count (a variant).
update_recount(self, data) ==
    IF data.txSetId = self.id
    THEN LET p  == Player(data.scorer, transaction_type_of(data))
             ps == Append(self.players, p)
         IN  IF ~Ok(p) THEN Raised(self, p.raised)
             ELSE Returned([self EXCEPT !.players = ps,
                                        !.finalized = (Len(ps) = self.count)])
    ELSE Returned(self)

\* update without the group-id test (a variant).
update_any_group(self, data) ==
    LET p == Player(data.scorer, transaction_type_of(data))
    IN  IF ~Ok(p) THEN Raised(self, p.raised)
        ELSE Returned([self EXCEPT !.players = Append(@, p), !.finalized = TRUE])

\* Transaction.update(data)
update(self, data) ==
    IF data.txSetId = self.id
    THEN LET p == Player(data.scorer, transaction_type_of(data))
         IN  IF ~Ok(p) THEN Raised(self, p.raised)
             ELSE Returned([self EXCEPT !.players = Append(@, p), !.finalized = TRUE])
    ELSE Returned(self)

\* Payloads of the transaction feed.
TxIds == {"tx1", "tx2"}

Scorer(n) ==
    [scorerId |-> n, name |-> n, shortName |-> n, teamName |-> "NYY",
     posShortNames |-> "P", posIdsNoFlex |-> <<"p1">>, posIds |-> <<"p1", "p2">>]

\* A scorer object that lacks posIds: Player raises KeyError on it.
BadScorer == [scorerId |-> "gamma", name |-> "gamma", shortName |-> "gamma",
              teamName |-> "NYY", posShortNames |-> "P", posIdsNoFlex |-> <<"p1">>]

TxScorers == {Scorer("alpha"), Scorer("beta"), BadScorer}

TxDate ==
    [a |-> "Mon", b |-> "Jan", d |-> <<"0", "1">>, Y |-> <<"2", "0", "2", "4">>,
     I |-> <<"1", "2">>, M |-> <<"0", "5">>, p |-> "AM"]

TxCodes == {[transactionCode |-> "CLAIM", claimType |-> "WW"],
            [transactionCode |-> "DROP", claimType |-> "WW"]}

TxFragment(i, n, s, c) ==
    [txSetId |-> i, numInGroup |-> n, scorer |-> s,
     transactionCode |-> c.transactionCode, claimType |-> c.claimType,
     cells |-> << [teamId |-> "t1"], [content |-> TxDate] >>]

TxFragments ==
    {TxFragment(i, n, s, c) : i \in TxIds, n \in 1..MaxCount, s \in TxScorers, c \in TxCodes}

\* The state after Transaction(data) returned.
InitTransaction ==
    /\ \E data \in TxFragments : tx = Transaction(data)
    /\ Ok(tx)
    /\ tx_calls = <<>>
    /\ tx_before = tx
    \* the other entities are not built
    /\ period = NotBuilt /\ period_rows = <<>> /\ period_calls = <<>> /\ period_now = 0
    /\ section = NotBuilt /\ standings = NotBuilt
    /\ player_data = NotBuilt /\ player = NotBuilt
    /\ matchup_data = <<>> /\ matchup = NotBuilt /\ won = Unset /\ diff = Unset
    /\ roster_data = NotBuilt /\ roster = NotBuilt

IsMismatch(call) == call.group = "mismatch"

\* One call tx.update(data).
Update(data) ==
    /\ Len(tx.players) < MaxPlayers
    /\ Len(tx_calls) < MaxCalls
    /\ LET r == update(tx, data)
       IN  /\ tx' = r.self
           /\ tx_calls' = Append(tx_calls,
                  [group  |-> IF data.txSetId = tx.id THEN "match" ELSE "mismatch",
                   raised |-> r.raised])
    /\ tx_before' = IF data.txSetId # tx.id /\ tx_calls # <<>>
                       /\ IsMismatch(tx_calls[Len(tx_calls)])
                    THEN tx_before ELSE tx
    /\ UNCHANGED <<periodVars, standVars, playerVars, matchupVars, rosterVars>>

(***************************************************************************)
(* Matchup                                                                 *)
(***************************************************************************)
\* A side that did not resolve to a Team holds the cell's label, a str.
Label(content) == [str |-> content]

\* The lookup without the except clause: a failure escapes (a variant).
resolve_side_no_fallback(data, k) ==
    IF Len(data) < k THEN Raise("IndexError")
    ELSE IF "teamId" \notin DOMAIN data[k] THEN Raise("KeyError")
    ELSE team(data[k].teamId)

\* try: api.team(data[k]["teamId"])  except FantraxException: data[k]["content"]
\* (k is the 1-based position of the cell)
resolve_side(data, k) ==
    IF Len(data) < k THEN Raise("IndexError")
    ELSE IF "teamId" \notin DOMAIN data[k] THEN Raise("KeyError")
    ELSE LET t == team(data[k].teamId)
         IN  IF Ok(t) THEN t
             ELSE IF "content" \notin DOMAIN data[k] THEN Raise("KeyError")
             ELSE [raised |-> "none", val |-> Label(data[k].content)]

\* float(str(data[k]["content"]).replace(',', ''))
parse_score(data, k) ==
    IF Len(data) < k THEN Raise("IndexError")
    ELSE IF "content" \notin DOMAIN data[k] THEN Raise("KeyError")
    ELSE ParseFloat(RemoveCommas(data[k].content))

\* Matchup.__init__(api, matchup_key, data)
Matchup(matchup_key, data) ==
    LET a  == resolve_side(data, 1)
        as == parse_score(data, 2)
        h  == resolve_side(data, 3)
        hs == parse_score(data, 4)
    IN  IF ~Ok(a) THEN Raise(a.raised)
        ELSE IF ~Ok(as) THEN Raise(as.raised)
        ELSE IF ~Ok(h) THEN Raise(h.raised)
        ELSE IF ~Ok(hs) THEN Raise(hs.raised)
        ELSE [raised      |-> "none",
              matchup_key |-> matchup_key,
              away        |-> a.val,
              away_score  |-> as.val,
              home        |-> h.val,
              home_score  |-> hs.val]

\* winner that returns the away side unless the home score is higher (a variant).
winner_away_on_tie(self) ==
    IF self.away_score >= self.home_score
    THEN <<self.away, self.away_score, self.home, self.home_score>>
    ELSE <<self.home, self.home_score, self.away, self.away_score>>

\* Matchup.winner()
winner(self) ==
    IF self.away_score > self.home_score
    THEN <<self.away, self.away_score, self.home, self.home_score>>
    ELSE IF self.away_score < self.home_score
    THEN <<self.home, self.home_score, self.away, self.away_score>>
    ELSE <<None, None, None, None>>

\* difference as the signed gap away - home (a variant).
difference_signed(self) == self.away_score - self.home_score

\* Matchup.difference()
difference(self) ==
    IF self.away_score > self.home_score
    THEN self.away_score - self.home_score
    ELSE IF self.away_score < self.home_score
    THEN self.home_score - self.away_score
    ELSE 0

\* Cells of the matchup table.
TeamCells ==
    {[teamId |-> "t1", content |-> <<"A", "c", "e", "s">>],
     [teamId |-> "t2", content |-> <<"B", "e", "a", "r", "s">>],
     [teamId |-> "bye", content |-> <<"B", "y", "e">>],     \* an id the registry lacks
     [content |-> <<"T", "B", "D">>]}                        \* no teamId at all

ScoreCells ==
    {[content |-> <<"9">>],
     [content |-> <<"9", ".", "5">>],
     [content |-> <<"1", ",", "0", "0", "0">>],
     [content |-> <<"-">>]}                                   \* not a number

MatchupCells == {<<a, as, h, hs>> : a \in TeamCells, as \in ScoreCells,
                                    h \in TeamCells, hs \in ScoreCells}

InitMatchup ==
    /\ matchup_data \in MatchupCells
    /\ matchup = NotBuilt
    /\ won = Unset
    /\ diff = Unset
    \* the other entities are not built
    /\ tx = NotBuilt /\ tx_calls = <<>> /\ tx_before = NotBuilt
    /\ period = NotBuilt /\ period_rows = <<>> /\ period_calls = <<>> /\ period_now = 0
    /\ section = NotBuilt /\ standings = NotBuilt
    /\ player_data = NotBuilt /\ player = NotBuilt
    /\ roster_data = NotBuilt /\ roster = NotBuilt

\* matchup = Matchup(api, 1, cells)
NewMatchup ==
    /\ matchup = NotBuilt
    /\ matchup' = Matchup(1, matchup_data)
    /\ UNCHANGED <<matchup_data, won, diff, txVars, periodVars, standVars, playerVars, rosterVars>>

\* won = matchup.winner()
Winner ==
    /\ Ok(matchup)
    /\ won' = Result(winner(matchup))
    /\ UNCHANGED <<matchup_data, matchup, diff, txVars, periodVars, standVars, playerVars, rosterVars>>

\* diff = matchup.difference()
Difference ==
    /\ Ok(matchup)
    /\ diff' = Result(difference(matchup))
    /\ UNCHANGED <<matchup_data, matchup, won, txVars, periodVars, standVars, playerVars, rosterVars>>

(***************************************************************************)
(* ScoringPeriod                                                           *)
(***************************************************************************)
DaysBeforeMonth == [b \in {"Jan", "Feb"} |-> IF b = "Jan" THEN 0 ELSE 31]

\* datetime.strptime(s, "%a %b %d, %Y"): midnight of the day, in ticks since
\* Jan 1 (every date of the model lies in the same year).
strptime_date(s) ==
    LET d == ParseInt(s.d)
        y == ParseInt(s.Y)
    IN  IF ~(Ok(d) /\ Ok(y)) \/ s.b \notin DOMAIN DaysBeforeMonth THEN Raise("ValueError")
        ELSE IF d.val \notin 1..31 THEN Raise("ValueError")
        ELSE [raised |-> "none",
              val |-> (DaysBeforeMonth[s.b] + d.val - 1) * TicksPerDay]

\* data["subCaption"][1:-1].split(" - "); the sub-caption is the token
\* sequence "(", date, " - ", date, ")".
split_dates(subCaption) ==
    SelectSeq(SubSeq(subCaption, 2, Len(subCaption) - 1), LAMBDA t : t # [sep |-> " - "])

\* for i, matchup in enumerate(rows, i): matchups.append(Matchup(api, i, matchup["cells"]))
\* The rows before the first one whose Matchup raises are appended.
RECURSIVE append_matchups(_, _, _)
append_matchups(matchups, rows, i) ==
    IF rows = <<>> THEN [matchups |-> matchups, raised |-> "none"]
    ELSE LET m == Matchup(i, Head(rows).cells)
         IN  IF ~Ok(m) THEN [matchups |-> matchups, raised |-> m.raised]
             ELSE append_matchups(Append(matchups, m), Tail(rows), i + 1)

\* The week of a caption: name is [head, tail], the str head + tail cut where
\* the code slices it; the attribute is absent when neither prefix matches.
week_of(name) ==
    IF name.head \in {"Scoring Period ", "Playoffs - Round "} THEN ParseInt(name.tail)
    ELSE [raised |-> "none"]

\* complete / current / future of ScoringPeriod.__init__
temporal_flags(start, next, now) ==
    [complete |-> now > next, current |-> (start < now /\ now < next), future |-> now < start]

\* ScoringPeriod.__init__(api, data), with datetime.now() = now
ScoringPeriod(data, now) ==
    LET w     == week_of(data.caption)
        dates == split_dates(data.subCaption)
        s     == IF Len(dates) >= 1 THEN strptime_date(dates[1]) ELSE Raise("IndexError")
        e     == IF Len(dates) >= 2 THEN strptime_date(dates[2]) ELSE Raise("IndexError")
        next  == e.val + TicksPerDay
        f     == temporal_flags(s.val, next, now)
        ms    == append_matchups(<<>>, data.rows, 1)
        obj   == [raised   |-> "none",
                  name     |-> data.caption,
                  start    |-> s.val,
                  end      |-> e.val,
                  next     |-> next,
                  days     |-> (next - s.val) \div TicksPerDay,
                  complete |-> f.complete,
                  current  |-> f.current,
                  future   |-> f.future,
                  matchups |-> ms.matchups]
    IN  IF ~Ok(w) THEN Raise(w.raised)
        ELSE IF ~Ok(s) THEN Raise(s.raised)
        ELSE IF ~Ok(e) THEN Raise(e.raised)
        ELSE IF ~Ok(ms) THEN Raise(ms.raised)
        ELSE IF "val" \in DOMAIN w
             THEN [k \in DOMAIN obj \cup {"week"} |-> IF k = "week" THEN w.val ELSE obj[k]]
             ELSE obj

\* add_matchups numbering the new rows from the current count (a variant).
add_matchups_from_count(self, data) ==
    LET r == append_matchups(self.matchups, data.rows, Len(self.matchups))
    IN  [self |-> [self EXCEPT !.matchups = r.matchups], raised |-> r.raised]

\* ScoringPeriod.add_matchups(data)
add_matchups(self, data) ==
    LET r == append_matchups(self.matchups, data.rows, Len(self.matchups) + 1)
    IN  [self |-> [self EXCEPT !.matchups = r.matchups], raised |-> r.raised]

\* Payloads of the schedule feed.
PeriodDate(day) ==
    [a |-> "Mon", b |-> "Jan", d |-> TwoDigits(day), Y |-> <<"2", "0", "2", "4">>]

SubCaption(d0, d1) ==
    << [sep |-> "("], PeriodDate(d0), [sep |-> " - "], PeriodDate(d1), [sep |-> ")"] >>

Captions == {[head |-> "Scoring Period ", tail |-> <<"1", "2">>],
             [head |-> "Playoffs - Round ", tail |-> <<"2">>],
             [head |-> "All-Star Break", tail |-> <<>>]}

PeriodRows ==
    {[cells |-> << [teamId |-> "t1", content |-> <<"A", "c", "e", "s">>],
                   [content |-> <<"1", ",", "0", "0", "0">>],
                   [teamId |-> "t2", content |-> <<"B", "e", "a", "r", "s">>],
                   [content |-> <<"9", ".", "5">>] >>],
     [cells |-> << [teamId |-> "bye", content |-> <<"B", "y", "e">>],
                   [content |-> <<"0">>],
                   [teamId |-> "t1", content |-> <<"A", "c", "e", "s">>],
                   [content |-> <<"0">>] >>],
     [cells |-> << [teamId |-> "t2", content |-> <<"B", "e", "a", "r", "s">>],
                   [content |-> <<"9">>],
                   [content |-> <<"T", "B", "D">>],             \* no teamId: KeyError
                   [content |-> <<"9">>] >>]}

RowSeqs(n) == UNION {[1..k -> PeriodRows] : k \in 0..n}

Nows == 0..((MaxDay + 1) * TicksPerDay + 1)

\* The state after ScoringPeriod(api, data) returned, at any time now.
InitPeriod ==
    /\ \E c \in Captions, d0 \in 1..MaxDay, d1 \in 1..MaxDay, rows \in RowSeqs(MaxMatchups), now \in Nows :
          /\ d0 <= d1
          /\ period = ScoringPeriod([caption |-> c, subCaption |-> SubCaption(d0, d1),
                                     rows |-> rows], now)
          /\ period_rows = rows
          /\ period_now = now
    /\ Ok(period)
    /\ period_calls = <<>>
    \* the other entities are not built
    /\ tx = NotBuilt /\ tx_calls = <<>> /\ tx_before = NotBuilt
    /\ section = NotBuilt /\ standings = NotBuilt
    /\ player_data = NotBuilt /\ player = NotBuilt
    /\ matchup_data = <<>> /\ matchup = NotBuilt /\ won = Unset /\ diff = Unset
    /\ roster_data = NotBuilt /\ roster = NotBuilt

\* One call period.add_matchups(data).
AddMatchups(data) ==
    /\ Len(period.matchups) + Len(data.rows) <= MaxMatchups
    /\ Len(period_calls) < MaxAdds
    /\ LET r == add_matchups(period, data)
           n == Len(r.self.matchups) - Len(period.matchups)
       IN  /\ period' = r.self
           /\ period_calls' = Append(period_calls,
                  [given |-> Len(data.rows), appended |-> n, raised |-> r.raised])
           /\ period_rows' = period_rows \o SubSeq(data.rows, 1, n)
    /\ UNCHANGED <<period_now, txVars, standVars, playerVars, matchupVars, rosterVars>>

(***************************************************************************)
(* Standings                                                               *)
(***************************************************************************)
IsNone(v) == v.py = "None"

\* d.get(k, None): the value of a present key as Result(value), else None.
get(d, k) == IF k \in DOMAIN d THEN Result(d[k]) ELSE None

\* {header: cell.get('content', None) for header, cell in zip(names, cells)}:
\* zip stops at the shorter list and a later duplicate header overwrites.
zip_dict(names, cells) ==
    LET n == Min(Len(names), Len(cells))
    IN  [h \in {names[i] : i \in 1..n} |->
            LET last == CHOOSE i \in 1..n :
                            names[i] = h /\ \A j \in (i + 1)..n : names[j] # h
            IN  get(cells[last], "content")]

\* row_dict after row_dict[header] = ... for each pair of the overlay
overlay(base, over) ==
    [k \in DOMAIN base \cup DOMAIN over |-> IF k \in DOMAIN over THEN over[k] ELSE base[k]]

\* [cell['name'] for cell in cells]
names_of(cells) == [i \in 1..Len(cells) |-> cells[i].name]

\* Record.__init__(api, team_id, rank, data)
Record(team_id, rank, data) ==
    LET t == IF IsNone(team_id) THEN Raise("FantraxException") ELSE team(team_id.val)
        r == IF IsNone(rank) THEN Raise("TypeError") ELSE ParseInt(rank.val)
    IN  IF ~Ok(t) THEN Raise(t.raised)
        ELSE IF ~Ok(r) THEN Raise(r.raised)
        ELSE [raised |-> "none", team |-> t.val, rank |-> r.val, data |-> data]

\* One turn of the loop, keeping a row whenever it has a team id (a variant).
standings_row_team_only(header_names, row) ==
    LET fixed_cells == IF "fixedCells" \in DOMAIN row THEN row.fixedCells ELSE <<>>
        row_dict    == zip_dict(header_names, row.cells)
    IN  IF Len(fixed_cells) < 2 THEN [raised |-> "none", kept |-> FALSE]
        ELSE LET fixed_headers == IF "fixedHeader" \in DOMAIN row
                                     /\ "cells" \in DOMAIN row.fixedHeader
                                  THEN row.fixedHeader.cells ELSE <<>>
                 full_dict == overlay(row_dict,
                                      zip_dict(names_of(fixed_headers), fixed_cells))
                 team_id   == get(fixed_cells[2], "teamId")
                 rank      == get(fixed_cells[1], "content")
             IN  IF ~IsNone(team_id)
                 THEN LET rec == Record(team_id, rank, full_dict)
                      IN  IF Ok(rec) THEN [raised |-> "none", kept |-> TRUE, record |-> rec]
                          ELSE Raise(rec.raised)
                 ELSE [raised |-> "none", kept |-> FALSE]

\* One turn of the loop over section['rows']: the row is skipped (kept is
\* FALSE), or yields a Record, or the Record's construction raises.
standings_row(header_names, row) ==
    LET cells       == row.cells
        row_dict    == zip_dict(header_names, cells)
        fixed_cells == IF "fixedCells" \in DOMAIN row THEN row.fixedCells ELSE <<>>
    IN  IF Len(fixed_cells) < 2 THEN [raised |-> "none", kept |-> FALSE]
        ELSE LET fixed_headers == IF "fixedHeader" \in DOMAIN row
                                     /\ "cells" \in DOMAIN row.fixedHeader
                                  THEN row.fixedHeader.cells ELSE <<>>
                 full_dict == overlay(row_dict,
                                      zip_dict(names_of(fixed_headers), fixed_cells))
                 team_id   == get(fixed_cells[2], "teamId")
                 rank      == get(fixed_cells[1], "content")
             IN  IF ~IsNone(team_id) /\ ~IsNone(rank)
                 THEN LET rec == Record(team_id, rank, full_dict)
                      IN  IF Ok(rec) THEN [raised |-> "none", kept |-> TRUE, record |-> rec]
                          ELSE Raise(rec.raised)
                 ELSE [raised |-> "none", kept |-> FALSE]

\* The loop over section['rows'], from the records gathered so far.
RECURSIVE standings_rows(_, _, _)
standings_rows(header_names, rows, team_records) ==
    IF rows = <<>> THEN [raised |-> "none", team_records |-> team_records]
    ELSE LET r == standings_row(header_names, Head(rows))
         IN  IF ~Ok(r) THEN Raise(r.raised)
             ELSE standings_rows(header_names, Tail(rows),
                      IF r.kept THEN Append(team_records, r.record) ELSE team_records)

\* Standings.__init__(api, section)
Standings(sec) ==
    LET rs == standings_rows(names_of(sec.header.cells), sec.rows, <<>>)
    IN  IF ~Ok(rs) THEN Raise(rs.raised)
        ELSE [raised       |-> "none",
              table_type   |-> get(sec, "tableType"),
              caption      |-> get(sec, "caption"),
              team_records |-> rs.team_records]

\* Rows of a standings table.
StatCells(w, l) == << [content |-> w], [content |-> l] >>

FixedHeader == [cells |-> << [name |-> "Rank"], [name |-> "Team"] >>]

StandingsRow(fixed) ==
    [cells |-> StatCells(<<"5">>, <<"3">>), fixedCells |-> fixed, fixedHeader |-> FixedHeader]

StandingsRows ==
    { \* rows with a rank and a team id the registry knows
      StandingsRow(<< [content |-> <<"1">>], [teamId |-> "t1", content |-> <<"A">>] >>),
      [cells |-> << [content |-> <<"4">>], [other |-> <<"x">>] >>,
       fixedCells |-> << [content |-> <<"1", "0">>], [teamId |-> "t2", content |-> <<"B">>],
                         [content |-> <<"x">>] >>],
      \* spacer rows: one fixed cell, or none
      StandingsRow(<< [content |-> <<"1">>] >>),
      [cells |-> StatCells(<<"0">>, <<"0">>)],
      \* no team id; no rank
      StandingsRow(<< [content |-> <<"2">>], [content |-> <<"A">>] >>),
      StandingsRow(<< [other |-> <<"2">>], [teamId |-> "t1", content |-> <<"A">>] >>),
      \* a team id the registry lacks; a rank that is no integer
      StandingsRow(<< [content |-> <<"3">>], [teamId |-> "zz", content |-> <<"Z">>] >>),
      StandingsRow(<< [content |-> <<"T", "1">>], [teamId |-> "t2", content |-> <<"B">>] >>) }

Sections ==
    {[tableType |-> "H2hPointsBased", caption |-> "Standings",
      header |-> [cells |-> << [name |-> "W"], [name |-> "L"] >>],
      rows |-> rows] : rows \in UNION {[1..k -> StandingsRows] : k \in 0..MaxRows}}

InitStandings ==
    /\ section \in Sections
    /\ standings = NotBuilt
    \* the other entities are not built
    /\ tx = NotBuilt /\ tx_calls = <<>> /\ tx_before = NotBuilt
    /\ period = NotBuilt /\ period_rows = <<>> /\ period_calls = <<>> /\ period_now = 0
    /\ player_data = NotBuilt /\ player = NotBuilt
    /\ matchup_data = <<>> /\ matchup = NotBuilt /\ won = Unset /\ diff = Unset
    /\ roster_data = NotBuilt /\ roster = NotBuilt

\* standings = Standings(api, section)
NewStandings ==
    /\ standings = NotBuilt
    /\ standings' = Standings(section)
    /\ UNCHANGED <<section, txVars, periodVars, playerVars, matchupVars, rosterVars>>

(***************************************************************************)
(* Player payloads                                                         *)
(***************************************************************************)
PositionIds == {"p1", "p2", "p9"}   \* p9 is an id the registry lacks

IconTypeIds == {"1", "2", "6", "7"}

SeqsUpTo(S, n) == UNION {[1..k -> S] : k \in 0..n}

PlayerPayloads ==
    LET base(nf, all) ==
            [scorerId |-> "alpha", name |-> "Al Pha", shortName |-> "A. Pha",
             teamName |-> "NYY", posShortNames |-> "P",
             posIdsNoFlex |-> nf, posIds |-> all]
        with_icons(d, icons) ==
            [k \in DOMAIN d \cup {"icons"} |-> IF k = "icons" THEN icons ELSE d[k]]
        PosLists == SeqsUpTo(PositionIds, MaxPos)
        IconLists == SeqsUpTo({[typeId |-> t] : t \in IconTypeIds}, MaxIcons)
    IN  {base(nf, all) : nf \in PosLists, all \in PosLists}
        \cup {with_icons(base(nf, all), icons) :
                 nf \in PosLists, all \in PosLists, icons \in IconLists}

InitPlayer ==
    /\ player_data \in PlayerPayloads
    /\ player = NotBuilt
    \* the other entities are not built
    /\ tx = NotBuilt /\ tx_calls = <<>> /\ tx_before = NotBuilt
    /\ period = NotBuilt /\ period_rows = <<>> /\ period_calls = <<>> /\ period_now = 0
    /\ section = NotBuilt /\ standings = NotBuilt
    /\ matchup_data = <<>> /\ matchup = NotBuilt /\ won = Unset /\ diff = Unset
    /\ roster_data = NotBuilt /\ roster = NotBuilt

\* player = Player(api, data)
NewPlayer ==
    /\ player = NotBuilt
    /\ player' = Player(player_data, None)
    /\ UNCHANGED <<player_data, txVars, periodVars, standVars, matchupVars, rosterVars>>

(***************************************************************************)
(* Roster                                                                  *)
(***************************************************************************)
\* datetime.strptime(s, "%I:%M%p"), s given by its fields
strptime_time(s) ==
    LET h == ParseInt(s.I)
        m == ParseInt(s.M)
    IN  IF ~(Ok(h) /\ Ok(m)) THEN Raise("ValueError")
        ELSE IF ~(h.val \in 1..12 /\ m.val \in 0..59) THEN Raise("ValueError")
        ELSE [raised |-> "none",
              val |-> [hour |-> (h.val % 12) + (IF s.p = "PM" THEN 12 ELSE 0),
                       minute |-> m.val]]

\* RosterRow.__init__(api, data).  The content of cells[1] is given by its
\* fields: it ends in AM or PM iff it has the field p, and is then
\* opponent + "<br/>" + day + " " + I:M p.
RosterRow(data) ==
    LET slot == IF data.statusId = "1"
                THEN IF data.posId \in DOMAIN PositionRegistry
                     THEN [raised |-> "none", pos_id |-> data.posId,
                           pos |-> PositionRegistry[data.posId]]
                     ELSE Raise("KeyError")
                ELSE IF data.statusId = "3"
                THEN [raised |-> "none", pos_id |-> "-1",
                      pos |-> Position([id |-> "-1", name |-> "Injured", shortName |-> "IR"])]
                ELSE [raised |-> "none", pos_id |-> "0",
                      pos |-> Position([id |-> "0", name |-> "Reserve", shortName |-> "Res"])]
        has     == "scorer" \in DOMAIN data
        p       == IF has THEN Player(data.scorer, None) ELSE [raised |-> "none"]
        f       == IF has THEN parse_score(data.cells, 4) ELSE [raised |-> "none"]
        content == data.cells[2].content
        timed   == "p" \in DOMAIN content /\ content.p \in {"AM", "PM"}
        t       == IF timed THEN strptime_time(content) ELSE [raised |-> "none"]
    IN  IF ~Ok(slot) THEN Raise(slot.raised)
        ELSE IF ~Ok(p) THEN Raise(p.raised)
        ELSE IF ~Ok(f) THEN Raise(f.raised)
        ELSE IF ~Ok(t) THEN Raise(t.raised)
        ELSE [raised   |-> "none",
              pos_id   |-> slot.pos_id,
              pos      |-> slot.pos,
              player   |-> IF has THEN p ELSE None,
              fppg     |-> IF has THEN Result(f.val) ELSE None,
              opponent |-> IF timed THEN Result(content.opponent) ELSE None,
              time     |-> IF timed THEN Result(t.val) ELSE None]

\* The loop over a group's rows: a row is part of the roster if it has a
\* scorer or its statusId is "1".
RECURSIVE roster_rows(_, _)
roster_rows(rows, acc) ==
    IF rows = <<>> THEN [raised |-> "none", rows |-> acc]
    ELSE LET row == Head(rows)
         IN  IF "scorer" \in DOMAIN row \/ row.statusId = "1"
             THEN LET r == RosterRow(row)
                  IN  IF ~Ok(r) THEN Raise(r.raised)
                      ELSE roster_rows(Tail(rows), Append(acc, r))
             ELSE roster_rows(Tail(rows), acc)

\* The loop over data["tables"].
RECURSIVE roster_tables(_, _)
roster_tables(tables, acc) ==
    IF tables = <<>> THEN [raised |-> "none", rows |-> acc]
    ELSE LET r == roster_rows(Head(tables).rows, acc)
         IN  IF ~Ok(r) THEN r ELSE roster_tables(Tail(tables), r.rows)

\* statusTotals[k][key] for the 0-based index k
status_total(totals, k, key) ==
    IF Len(totals) < k + 1 THEN Raise("IndexError")
    ELSE IF key \notin DOMAIN totals[k + 1] THEN Raise("KeyError")
    ELSE [raised |-> "none", val |-> totals[k + 1][key]]

\* Roster.__init__(api, data, team_id)
Roster(data, team_id) ==
    LET t       == team(team_id)
        totals  == data.miscData.statusTotals
        active  == status_total(totals, 0, "total")
        reserve == status_total(totals, 1, "total")
        max     == status_total(totals, 1, "max")
        injured == status_total(totals, 2, "total")
        rows    == roster_tables(data.tables, <<>>)
    IN  IF ~Ok(t) THEN Raise(t.raised)
        ELSE IF ~Ok(active) THEN Raise(active.raised)
        ELSE IF ~Ok(reserve) THEN Raise(reserve.raised)
        ELSE IF ~Ok(max) THEN Raise(max.raised)
        ELSE IF ~Ok(injured) THEN Raise(injured.raised)
        ELSE IF ~Ok(rows) THEN Raise(rows.raised)
        ELSE [raised   |-> "none",
              team     |-> t.val,
              active   |-> active.val,
              reserve  |-> reserve.val,
              max      |-> max.val,
              injured  |-> injured.val,
              rows     |-> rows.rows]

\* Payloads of the roster feed.
StatusSlots == {[total |-> 5, max |-> 9], [total |-> 2]}

GameCell == [content |-> [opponent |-> "@BOS", day |-> "Mon", I |-> <<"7">>,
                          M |-> <<"0", "5">>, p |-> "PM"]]

NoGameCell == [content |-> [text |-> <<>>]]

RosterCells(c) == << [content |-> <<"P">>], c, [content |-> <<"1">>], [content |-> <<"9", ".", "5">>] >>

RosterRows ==
    {[statusId |-> "1", posId |-> "p1", scorer |-> Scorer("alpha"), cells |-> RosterCells(GameCell)],
     [statusId |-> "1", posId |-> "p2", cells |-> RosterCells(NoGameCell)],
     [statusId |-> "2", posId |-> "p1", cells |-> RosterCells(NoGameCell)],
     [statusId |-> "3", posId |-> "p1", scorer |-> Scorer("beta"), cells |-> RosterCells(NoGameCell)]}

RosterPayloads ==
    {[miscData |-> [statusTotals |-> totals], tables |-> << [rows |-> rows] >>] :
        totals \in SeqsUpTo(StatusSlots, MaxTotals), rows \in SeqsUpTo(RosterRows, MaxGroupRows)}

RosterTeamIds == {"t1", "zz"}   \* zz is an id the registry lacks

InitRoster ==
    /\ \E data \in RosterPayloads, team_id \in RosterTeamIds :
          roster_data = [data |-> data, team_id |-> team_id]
    /\ roster = NotBuilt
    \* the other entities are not built
    /\ tx = NotBuilt /\ tx_calls = <<>> /\ tx_before = NotBuilt
    /\ period = NotBuilt /\ period_rows = <<>> /\ period_calls = <<>> /\ period_now = 0
    /\ section = NotBuilt /\ standings = NotBuilt
    /\ player_data = NotBuilt /\ player = NotBuilt
    /\ matchup_data = <<>> /\ matchup = NotBuilt /\ won = Unset /\ diff = Unset

\* roster = Roster(api, data, team_id)
NewRoster ==
    /\ roster = NotBuilt
    /\ roster' = Roster(roster_data.data, roster_data.team_id)
    /\ UNCHANGED <<roster_data, txVars, periodVars, standVars, playerVars, matchupVars>>

(***************************************************************************)
(* Specifications: one per entity; the other entities stay unbuilt.        *)
(***************************************************************************)
NextTransaction == \E data \in TxFragments : Update(data)

SpecTransaction == InitTransaction /\ [][NextTransaction]_vars

NextPeriod == \E rows \in RowSeqs(MaxMatchups) : AddMatchups([rows |-> rows])

SpecPeriod == InitPeriod /\ [][NextPeriod]_vars

NextMatchup == NewMatchup \/ Winner \/ Difference

SpecMatchup == InitMatchup /\ [][NextMatchup]_vars

NextStandings == NewStandings

SpecStandings == InitStandings /\ [][NextStandings]_vars

NextPlayer == NewPlayer

SpecPlayer == InitPlayer /\ [][NextPlayer]_vars

NextRoster == NewRoster

SpecRoster == InitRoster /\ [][NextRoster]_vars

(***************************************************************************)
(* Properties of Transaction (under SpecTransaction)                       *)
(***************************************************************************)
LastCall == tx_calls[Len(tx_calls)]

\* C1: finalized is false in every state where len(players) < count and true
\* in every state where len(players) = count, so the transaction becomes
\* finalized only on the update that adds the last expected member.
C1_FinalizedIffAllPlayers ==
    /\ Len(tx.players) < tx.count => ~tx.finalized
    /\ Len(tx.players) = tx.count => tx.finalized

\* C2: an update whose txSetId differs from the transaction's id raises
\* nothing and leaves the whole object (id, team, date, count, players,
\* finalized) as it was before the first update of the current run of
\* mismatched updates.
C2_MismatchedUpdateIsNoOp ==
    (tx_calls # <<>> /\ IsMismatch(LastCall)) =>
        /\ LastCall.raised = "none"
        /\ tx = tx_before

\* Two mismatched updates in a row, after a matching one added a player.
C2_Witness ==
    /\ Len(tx_calls) >= 3
    /\ tx_calls[Len(tx_calls) - 2].group = "match"
    /\ tx_calls[Len(tx_calls) - 2].raised = "none"
    /\ IsMismatch(tx_calls[Len(tx_calls) - 1])
    /\ IsMismatch(LastCall)
    /\ Len(tx.players) >= 2

\* C3: over any sequence of updates len(players) never decreases, grows by
\* exactly one on each matching update that returns (and stays on one that
\* raises or mismatches), and finalized never goes from true back to false.
C3_UpdateIsMonotonic ==
    [][LET call == tx_calls'[Len(tx_calls')]
       IN  /\ Len(tx'.players) >= Len(tx.players)
           /\ tx.finalized => tx'.finalized
           /\ (call.group = "match" /\ call.raised = "none")
                 => Len(tx'.players) = Len(tx.players) + 1
           /\ (call.group = "mismatch" \/ call.raised # "none")
                 => Len(tx'.players) = Len(tx.players)]_vars

\* A transaction built finalized (count 1) that matching updates have grown,
\* with a mismatched update in between.
C3_Witness ==
    /\ tx.count = 1
    /\ tx.finalized
    /\ Len(tx.players) = 3
    /\ \E i \in 1..Len(tx_calls) : IsMismatch(tx_calls[i])

(***************************************************************************)
(* Properties of ScoringPeriod (under SpecPeriod)                          *)
(***************************************************************************)
\* C4: the matchup at 1-based position i has matchup_key = i and is the
\* Matchup of the i-th row supplied, over the constructor and every
\* add_matchups call: keys are distinct and contiguous from 1, in the order
\* the rows came, and earlier matchups keep their place and key.
C4_KeysContinueFromCount ==
    /\ Len(period.matchups) = Len(period_rows)
    /\ \A i \in 1..Len(period.matchups) :
          /\ period.matchups[i].matchup_key = i
          /\ period.matchups[i] = Matchup(i, period_rows[i].cells)

\* A period built with one row and extended by add_matchups.
C4_Witness ==
    /\ Len(period.matchups) >= 2
    /\ \E k \in 1..Len(period_calls) :
          /\ period_calls[k].appended >= 1
          /\ period_calls[k].raised = "none"
    /\ Len(period_rows) > period_calls[1].appended

\* C5: exactly one of complete / current / future is true, with future iff
\* now < start, current iff start <= now < next, complete iff now >= next.
C5_FlagsPartitionTime ==
    /\ Cardinality({f \in {"complete", "current", "future"} : period[f]}) = 1
    /\ period.future   <=> period_now < period.start
    /\ period.current  <=> (period.start <= period_now /\ period_now < period.next)
    /\ period.complete <=> period_now >= period.next

(***************************************************************************)
(* Properties of Standings (under SpecStandings)                           *)
(***************************************************************************)
FixedCellsOf(row) == IF "fixedCells" \in DOMAIN row THEN row.fixedCells ELSE <<>>

\* A valid row: at least two fixed cells, a team id that resolves, a rank.
IsValidRow(row) ==
    /\ Len(FixedCellsOf(row)) >= 2
    /\ "teamId" \in DOMAIN row.fixedCells[2]
    /\ row.fixedCells[2].teamId \in DOMAIN TeamRegistry
    /\ "content" \in DOMAIN row.fixedCells[1]
    /\ AllDigits(row.fixedCells[1].content)

\* An invalid row: fewer than two fixed cells, or no team id, or no rank.
IsInvalidRow(row) ==
    \/ Len(FixedCellsOf(row)) < 2
    \/ "teamId" \notin DOMAIN row.fixedCells[2]
    \/ "content" \notin DOMAIN row.fixedCells[1]

ValidRows == SelectSeq(section.rows, IsValidRow)

\* C6: on a section whose rows are each valid or invalid, construction
\* raises nothing and yields exactly one record per valid row, in the
\* order of the valid rows, wherever the invalid rows stand between them.
C6_OneRecordPerValidRow ==
    (standings # NotBuilt
        /\ \A i \in 1..Len(section.rows) :
              IsValidRow(section.rows[i]) \/ IsInvalidRow(section.rows[i])) =>
        /\ Ok(standings)
        /\ Len(standings.team_records) = Len(ValidRows)
        /\ \A i \in 1..Len(ValidRows) :
              /\ standings.team_records[i].team.team_id = ValidRows[i].fixedCells[2].teamId
              /\ standings.team_records[i].rank = DigitsValue(ValidRows[i].fixedCells[1].content)

\* Built from valid rows with an invalid row between them.
C6_Witness ==
    /\ standings # NotBuilt
    /\ Ok(standings)
    /\ Len(section.rows) >= 3
    /\ IsValidRow(section.rows[1])
    /\ IsInvalidRow(section.rows[2])
    /\ IsValidRow(section.rows[3])
    /\ section.rows[1] # section.rows[3]
    /\ Len(standings.team_records) = 2

(***************************************************************************)
(* Properties of Player (under SpecPlayer)                                 *)
(***************************************************************************)
PositionsWithinAll(p) ==
    /\ Len(p.positions) <= Len(p.all_positions)
    /\ \A i \in 1..Len(p.positions) :
          \E j \in 1..Len(p.all_positions) : PositionEq(p.positions[i], p.all_positions[j])

\* C7 as stated: for every payload, len(positions) <= len(all_positions) and
\* every element of positions appears in all_positions.
C7_PositionsWithinAll_AnyPayload ==
    Ok(player) => PositionsWithinAll(player)

\* C7 amended: the same holds for every payload whose posIdsNoFlex is no
\* longer than its posIds and lists only ids that posIds lists.
C7_PositionsWithinAll_SubPayload ==
    (/\ Ok(player)
     /\ Len(player_data.posIdsNoFlex) <= Len(player_data.posIds)
     /\ \A i \in 1..Len(player_data.posIdsNoFlex) :
           \E j \in 1..Len(player_data.posIds) :
               player_data.posIdsNoFlex[i] = player_data.posIds[j])
        => PositionsWithinAll(player)

\* A player with one no-flex position out of two.
C7_Witness ==
    /\ Ok(player)
    /\ Len(player.positions) = 1
    /\ Len(player.all_positions) = 2
    /\ player_data.posIdsNoFlex[1] = player_data.posIds[2]
    /\ player_data.posIds[1] # player_data.posIds[2]

(***************************************************************************)
(* Properties of Matchup (under SpecMatchup)                               *)
(***************************************************************************)
\* C8: winner() returns (winning side, its score, losing side, its score),
\* the winning side being the one with the strictly higher stored score, and
\* returns (None, None, None, None) exactly when the scores are equal.
C8_WinnerIsHigherScore ==
    won # Unset =>
        LET w == won.val
            m == matchup
        IN  IF m.away_score = m.home_score
            THEN w[1] = None /\ w[3] = None /\ w[2] = None /\ w[4] = None
            ELSE /\ w[1] # None
                 /\ w[2] > w[4]
                 /\ IF m.away_score > m.home_score
                    THEN w = <<m.away, m.away_score, m.home, m.home_score>>
                    ELSE w = <<m.home, m.home_score, m.away, m.away_score>>

\* winner() was called on a matchup the home side won.
C8_Witness ==
    /\ won # Unset
    /\ matchup.away_score < matchup.home_score
    /\ won.val[1] = matchup.home

\* The object with home and away (teams and scores) exchanged.
Swapped(m) ==
    [m EXCEPT !.away = m.home, !.away_score = m.home_score,
              !.home = m.away, !.home_score = m.away_score]

\* C9: difference() is the absolute score gap: non-negative, 0 exactly on a
\* tie, and the same on the matchup with home and away exchanged.
C9_DifferenceIsAbsoluteGap ==
    diff # Unset =>
        /\ diff.val >= 0
        /\ (diff.val = 0) <=> (matchup.away_score = matchup.home_score)
        /\ diff.val \in {matchup.away_score - matchup.home_score,
                         matchup.home_score - matchup.away_score}
        /\ diff.val = difference(Swapped(matchup))

\* difference() was called on a matchup the home side won.
C9_Witness ==
    /\ diff # Unset
    /\ diff.val > 0
    /\ matchup.away_score < matchup.home_score

(***************************************************************************)
(* Properties of Roster (under SpecRoster)                                 *)
(***************************************************************************)
\* C10: when miscData.statusTotals holds fewer than three slots, construction
\* fails, and with a malformed-payload error, not an out-of-range fault.
C10_ShortTotalsFailDescriptively ==
    (roster # NotBuilt /\ Len(roster_data.data.miscData.statusTotals) < 3) =>
        /\ ~Ok(roster)
        /\ roster.raised # "IndexError"

(***************************************************************************)
(* Properties of Matchup construction (under SpecMatchup)                  *)
(***************************************************************************)
\* The side the claim expects from a cell that carries a teamId: the Team
\* when the id resolves, else the cell's raw label text.
ExpectedSide(cell) ==
    IF cell.teamId \in DOMAIN TeamRegistry
    THEN TeamRegistry[cell.teamId]
    ELSE Label(cell.content)

ScoreParses(cell) == Ok(ParseFloat(RemoveCommas(cell.content)))

\* C11: for a row whose two team cells carry a teamId and whose two score
\* cells hold numbers, construction succeeds whether or not either side
\* resolves; each side, independently of the other, is the resolved Team
\* or, when resolution fails, the cell's raw label; both scores are the
\* parsed numbers.
C11_SideFallsBackToLabel ==
    (/\ matchup # NotBuilt
     /\ "teamId" \in DOMAIN matchup_data[1]
     /\ "teamId" \in DOMAIN matchup_data[3]
     /\ ScoreParses(matchup_data[2])
     /\ ScoreParses(matchup_data[4])) =>
        /\ Ok(matchup)
        /\ matchup.away = ExpectedSide(matchup_data[1])
        /\ matchup.home = ExpectedSide(matchup_data[3])
        /\ matchup.away_score = ParseFloat(RemoveCommas(matchup_data[2].content)).val
        /\ matchup.home_score = ParseFloat(RemoveCommas(matchup_data[4].content)).val

\* Built from a row whose away side did not resolve and whose home side did.
C11_Witness ==
    /\ matchup # NotBuilt
    /\ Ok(matchup)
    /\ matchup_data[1].teamId \notin DOMAIN TeamRegistry
    /\ matchup.away = Label(matchup_data[1].content)
    /\ matchup.home = TeamRegistry["t1"]
    /\ matchup.away_score # matchup.home_score

(***************************************************************************)
(* Properties of Player status flags (under SpecPlayer)                    *)
(***************************************************************************)
IconsOf(data) == IF "icons" \in DOMAIN data THEN data.icons ELSE <<>>

\* C12: every constructed Player has suspended = false, whatever its icons
\* (typeId "6" included), and injured is true iff some icon has a typeId
\* among "1", "2", "6".
C12_NeverSuspended ==
    Ok(player) =>
        /\ ~player.suspended
        /\ player.injured <=>
              \E i \in 1..Len(IconsOf(player_data)) :
                  IconsOf(player_data)[i].typeId \in {"1", "2", "6"}

\* A player whose icons hold typeId "6" next to an icon of no listed type.
C12_Witness ==
    /\ Ok(player)
    /\ Len(IconsOf(player_data)) = 2
    /\ IconsOf(player_data)[1].typeId = "7"
    /\ IconsOf(player_data)[2].typeId = "6"
    /\ player.injured

=============================================================================
